---------------------------- MODULE Spec2Model ----------------------------
(***************************************************************************)
(* Model of tracker/templatetags/custom_filters.py: the template filters   *)
(* div, mul, timesince_days, replace, dict_get, to_css_class,              *)
(* customer_status, abs, order_last_update, margin_percentage,             *)
(* safe_filesize, format_minutes, elapsed_minutes, extract_services,       *)
(* actual_time_minutes, has_type and format_qty.                           *)
(*                                                                         *)
(* Every filter is an operator from Python values to a call outcome: the   *)
(* value returned, or the exception that leaves the call.  Python values   *)
(* are tagged records (field t).  Text is a sequence of one-character      *)
(* strings.  A finite float is an exact fraction num/den in lowest terms   *)
(* (binary rounding error is not modelled); inf and nan are values of      *)
(* their own.  A datetime is a wall-clock reading in seconds, naive or     *)
(* carrying a UTC offset.  The ambient clock (timezone.now()) and the      *)
(* current timezone are the state variables now and tz; the settings are   *)
(* taken with USE_TZ = True, so timezone.now() is aware.                   *)
(***************************************************************************)
EXTENDS Integers, Sequences, FiniteSets, TLC

VARIABLES
    now,      \* timezone.now(): seconds since the epoch, UTC
    tz,       \* UTC offset, in seconds, of the current timezone
    op,       \* the filter the template called last ("" before the first)
    value,    \* its first argument
    arg,      \* its second argument (None for a one-argument filter)
    result    \* the outcome of the call

vars == <<now, tz, op, value, arg, result>>

---------------------------------------------------------------------------
(* Python values *)

(* math.gcd on two natural numbers *)
RECURSIVE GcdNat(_, _)
GcdNat(x, y) == IF y = 0 THEN x ELSE GcdNat(y, x % y)

Gcd(a, b) == GcdNat(IF a < 0 THEN -a ELSE a, IF b < 0 THEN -b ELSE b)

PyNone == [t |-> "None"]
PyInt(n) == [t |-> "int", i |-> n]
Reduced(n, d, g) == [t |-> "float", num |-> n \div g, den |-> d \div g]
PyFloat(n, d) == Reduced(n, d, Gcd(n, d))
PyInf(sign) == [t |-> "inf", sg |-> sign]
PyNaN == [t |-> "nan"]
PyStr(chars) == [t |-> "str", s |-> chars]
PyBool(b) == [t |-> "bool", b |-> b]
PyList(items) == [t |-> "list", l |-> items]
PyObject == [t |-> "object"]
PyDict(f) == [t |-> "dict", d |-> f]
PyRecord(f) == [t |-> "record", a |-> f]
PyQuerySet(types) == [t |-> "queryset", types |-> types]
PyFile(name, size, onDisk) ==
    [t |-> "file", name |-> name, size |-> size, ondisk |-> onDisk]
NaiveDatetime(wall) ==
    [t |-> "datetime", wall |-> wall, aware |-> FALSE, off |-> 0]
AwareDatetime(wall, off) ==
    [t |-> "datetime", wall |-> wall, aware |-> TRUE, off |-> off]

(* The outcome of a call or of a step inside one. *)
Ret(v) == [kind |-> "return", val |-> v]
Raise(e) == [kind |-> "raise", exc |-> e]

(* The classes an except clause naming cls catches: cls and its subclasses. *)
Bases(e) ==
    CASE e = "InvalidOperation" ->
            {"InvalidOperation", "DecimalException", "ArithmeticError", "Exception"}
      [] e = "OverflowError" -> {"OverflowError", "ArithmeticError", "Exception"}
      [] e = "ZeroDivisionError" ->
            {"ZeroDivisionError", "ArithmeticError", "Exception"}
      [] e = "FileNotFoundError" -> {"FileNotFoundError", "OSError", "Exception"}
      [] OTHER -> {e, "Exception"}

Except(r, classes, default) ==
    IF r.kind = "raise" /\ Bases(r.exc) \cap classes # {} THEN Ret(default) ELSE r

(* bool(v) *)
Truthy(v) ==
    CASE v.t = "None" -> FALSE
      [] v.t = "int" -> v.i # 0
      [] v.t = "float" -> v.num # 0
      [] v.t = "str" -> v.s # <<>>
      [] v.t = "bool" -> v.b
      [] v.t = "list" -> v.l # <<>>
      [] v.t = "dict" -> DOMAIN v.d # {}
      [] v.t = "queryset" -> v.types # {}
      [] v.t = "file" -> v.name # <<>>
      [] OTHER -> TRUE

(* getattr(o, name, default) and hasattr(o, name) *)
GetAttr(o, name, default) ==
    IF o.t = "record" /\ name \in DOMAIN o.a THEN o.a[name] ELSE default

HasAttr(o, name) ==
    \/ o.t = "record" /\ name \in DOMAIN o.a
    \/ o.t = "dict" /\ name = "get"

(* o.name: AttributeError when o has no such attribute *)
Attr(o, name) ==
    IF o.t = "record" /\ name \in DOMAIN o.a
    THEN Ret(o.a[name])
    ELSE Raise("AttributeError")

---------------------------------------------------------------------------
(* Text *)

UpperCase == <<"A", "B", "C", "D", "E", "F", "G", "H", "I", "J", "K", "L", "M",
               "N", "O", "P", "Q", "R", "S", "T", "U", "V", "W", "X", "Y", "Z">>
LowerCase == <<"a", "b", "c", "d", "e", "f", "g", "h", "i", "j", "k", "l", "m",
               "n", "o", "p", "q", "r", "s", "t", "u", "v", "w", "x", "y", "z">>
Digits == <<"0", "1", "2", "3", "4", "5", "6", "7", "8", "9">>

LowerChar(c) ==
    IF \E k \in 1..Len(UpperCase) : UpperCase[k] = c
    THEN LowerCase[CHOOSE k \in 1..Len(UpperCase) : UpperCase[k] = c]
    ELSE c

IsSpace(c) == c \in {" ", "\t", "\r", "\n"}

RECURSIVE str_lower(_)
str_lower(s) ==
    IF s = <<>> THEN <<>> ELSE <<LowerChar(Head(s))>> \o str_lower(Tail(s))

RECURSIVE str_lstrip(_)
str_lstrip(s) ==
    IF s # <<>> /\ IsSpace(Head(s)) THEN str_lstrip(Tail(s)) ELSE s

RECURSIVE str_rstrip(_)
str_rstrip(s) ==
    IF s # <<>> /\ IsSpace(s[Len(s)])
    THEN str_rstrip(SubSeq(s, 1, Len(s) - 1))
    ELSE s

str_strip(s) == str_rstrip(str_lstrip(s))

(* s.rstrip(c) for a single character c *)
RECURSIVE str_rstrip_char(_, _)
str_rstrip_char(s, c) ==
    IF s # <<>> /\ s[Len(s)] = c
    THEN str_rstrip_char(SubSeq(s, 1, Len(s) - 1), c)
    ELSE s

str_startswith(s, prefix) ==
    Len(s) >= Len(prefix) /\ SubSeq(s, 1, Len(prefix)) = prefix

(* sub in s *)
str_contains(s, sub) ==
    \E k \in 1..(Len(s) - Len(sub) + 1) : SubSeq(s, k, k + Len(sub) - 1) = sub

(* s.split(sep) for a single character sep: the list of pieces *)
RECURSIVE str_split(_, _)
str_split(s, sep) ==
    IF \E k \in 1..Len(s) : s[k] = sep
    THEN LET k == CHOOSE j \in 1..Len(s) :
                    s[j] = sep /\ \A m \in 1..(j - 1) : s[m] # sep
         IN  <<SubSeq(s, 1, k - 1)>> \o str_split(SubSeq(s, k + 1, Len(s)), sep)
    ELSE <<s>>

(* s.split(sep, 1): at most one split, at the first sep *)
str_split1(s, sep) ==
    IF \E k \in 1..Len(s) : s[k] = sep
    THEN LET k == CHOOSE j \in 1..Len(s) :
                    s[j] = sep /\ \A m \in 1..(j - 1) : s[m] # sep
         IN  <<SubSeq(s, 1, k - 1), SubSeq(s, k + 1, Len(s))>>
    ELSE <<s>>

(* s.replace(old, new): every non-overlapping occurrence, left to right;  *)
(* an empty old matches before every character and at the end.            *)
RECURSIVE str_replace(_, _, _)
str_replace(s, old, new) ==
    IF old = <<>>
    THEN IF s = <<>> THEN new
         ELSE new \o <<Head(s)>> \o str_replace(Tail(s), old, new)
    ELSE IF s = <<>> THEN <<>>
    ELSE IF str_startswith(s, old)
         THEN new \o str_replace(SubSeq(s, Len(old) + 1, Len(s)), old, new)
         ELSE <<Head(s)>> \o str_replace(Tail(s), old, new)

(* str(n) for an integer n *)
RECURSIVE NatToStr(_)
NatToStr(n) ==
    IF n < 10 THEN <<Digits[n + 1]>>
    ELSE NatToStr(n \div 10) \o <<Digits[(n % 10) + 1]>>

IntToStr(n) == IF n < 0 THEN <<"-">> \o NatToStr(-n) ELSE NatToStr(n)

IsDigit(c) == \E k \in 1..10 : Digits[k] = c
DigitVal(c) == (CHOOSE k \in 1..10 : Digits[k] = c) - 1

RECURSIVE DigitsVal(_)
DigitsVal(s) ==
    IF s = <<>> THEN 0
    ELSE 10 * DigitsVal(SubSeq(s, 1, Len(s) - 1)) + DigitVal(s[Len(s)])

RECURSIVE Pow10(_)
Pow10(k) == IF k = 0 THEN 1 ELSE 10 * Pow10(k - 1)

---------------------------------------------------------------------------
(* Numbers *)

(* The numeric literal grammar float() and Decimal() share: surrounding   *)
(* whitespace, a sign, then inf, infinity or nan in any case, or digits   *)
(* with at most one point and at least one digit.  (Exponents and digit   *)
(* group underscores are not modelled; no input of the model has them.)   *)
AllDigits(s) == \A k \in 1..Len(s) : IsDigit(s[k])

ParseDigits(neg, low, ip, fp) ==
    IF low \in {<<"i", "n", "f">>, <<"i", "n", "f", "i", "n", "i", "t", "y">>}
    THEN [ok |-> TRUE, kind |-> "inf", neg |-> neg, coeff |-> 0, scale |-> 0]
    ELSE IF low = <<"n", "a", "n">>
    THEN [ok |-> TRUE, kind |-> "nan", neg |-> neg, coeff |-> 0, scale |-> 0]
    ELSE IF AllDigits(ip) /\ AllDigits(fp) /\ Len(ip) + Len(fp) > 0
    THEN [ok |-> TRUE, kind |-> "finite", neg |-> neg,
          coeff |-> DigitsVal(ip \o fp), scale |-> Len(fp)]
    ELSE [ok |-> FALSE, kind |-> "bad", neg |-> FALSE, coeff |-> 0, scale |-> 0]

ParseParts(neg, low, parts) ==
    ParseDigits(neg, low, parts[1], IF Len(parts) = 2 THEN parts[2] ELSE <<>>)

ParseUnsigned(neg, s1) == ParseParts(neg, str_lower(s1), str_split1(s1, "."))

ParseStripped(s0) ==
    ParseUnsigned(s0 # <<>> /\ Head(s0) = "-",
                  IF s0 # <<>> /\ Head(s0) \in {"-", "+"} THEN Tail(s0) ELSE s0)

ParseNumber(chars) == ParseStripped(str_strip(chars))

(* decimal.Decimal values: sign, coefficient and number of decimals *)
PyDecimal(neg, coeff, scale) ==
    [t |-> "Decimal", neg |-> neg, coeff |-> coeff, scale |-> scale]
DecimalInf(neg) == [t |-> "DecimalInf", neg |-> neg]
DecimalNaN == [t |-> "DecimalNaN"]

(* float(v) *)
FloatOfParse(p) ==
    IF ~p.ok THEN Raise("ValueError")
    ELSE IF p.kind = "inf" THEN Ret(PyInf(IF p.neg THEN -1 ELSE 1))
    ELSE IF p.kind = "nan" THEN Ret(PyNaN)
    ELSE Ret(PyFloat(IF p.neg THEN -p.coeff ELSE p.coeff, Pow10(p.scale)))

py_float(v) ==
    CASE v.t = "int" -> Ret(PyFloat(v.i, 1))
      [] v.t \in {"float", "inf", "nan"} -> Ret(v)
      [] v.t = "bool" -> Ret(PyFloat(IF v.b THEN 1 ELSE 0, 1))
      [] v.t = "Decimal" ->
            Ret(PyFloat(IF v.neg THEN -v.coeff ELSE v.coeff, Pow10(v.scale)))
      [] v.t = "str" -> FloatOfParse(ParseNumber(v.s))
      [] OTHER -> Raise("TypeError")

Sign(n) == IF n < 0 THEN -1 ELSE IF n > 0 THEN 1 ELSE 0
FloatSign(x) == IF x.t = "inf" THEN x.sg ELSE Sign(x.num)

(* a / b on floats *)
FloatDiv(a, b) ==
    IF b.t = "float" /\ b.num = 0 THEN Raise("ZeroDivisionError")
    ELSE IF a.t = "nan" \/ b.t = "nan" THEN Ret(PyNaN)
    ELSE IF a.t = "inf" /\ b.t = "inf" THEN Ret(PyNaN)
    ELSE IF a.t = "inf" THEN Ret(PyInf(a.sg * Sign(b.num)))
    ELSE IF b.t = "inf" THEN Ret(PyFloat(0, 1))
    ELSE Ret(PyFloat(a.num * b.den * Sign(b.num),
                     a.den * b.num * Sign(b.num)))

(* a * b on floats *)
FloatMul(a, b) ==
    IF a.t = "nan" \/ b.t = "nan" THEN PyNaN
    ELSE IF a.t = "inf" \/ b.t = "inf"
    THEN IF FloatSign(a) * FloatSign(b) = 0 THEN PyNaN
         ELSE PyInf(FloatSign(a) * FloatSign(b))
    ELSE PyFloat(a.num * b.num, a.den * b.den)

(* a - b on floats *)
FloatSub(a, b) ==
    IF a.t = "nan" \/ b.t = "nan" THEN PyNaN
    ELSE IF a.t = "inf" /\ b.t = "inf"
    THEN IF a.sg = b.sg THEN PyNaN ELSE a
    ELSE IF a.t = "inf" THEN a
    ELSE IF b.t = "inf" THEN PyInf(-b.sg)
    ELSE PyFloat(a.num * b.den - b.num * a.den, a.den * b.den)

(* A variant of FloatLeZero with a slip: < in place of <=. *)
FloatLtZero(x) == x.t # "nan" /\ FloatSign(x) < 0

(* x <= 0 and x > 0 on floats: every comparison with nan is false *)
FloatLeZero(x) == x.t # "nan" /\ FloatSign(x) <= 0
FloatGtZero(x) == x.t # "nan" /\ FloatSign(x) > 0

(* abs(x) on floats *)
FloatAbs(x) ==
    CASE x.t = "nan" -> x
      [] x.t = "inf" -> PyInf(1)
      [] OTHER -> PyFloat(IF x.num < 0 THEN -x.num ELSE x.num, x.den)

(* The integer nearest to n/d (d > 0), a tie going to the even one. *)
NearestEven(q, r, d) ==
    IF 2 * r < d THEN q
    ELSE IF 2 * r > d THEN q + 1
    ELSE IF q % 2 = 0 THEN q ELSE q + 1

RoundHalfEven(n, d) == NearestEven(n \div d, n % d, d)

(* round(x, 2) on floats *)
FloatRound2(x) ==
    IF x.t \in {"inf", "nan"} THEN x
    ELSE PyFloat(RoundHalfEven(x.num * 100, x.den), 100)

(* int(x) for a float or an int: truncation towards zero *)
py_int(x) ==
    CASE x.t = "int" -> Ret(x)
      [] x.t = "inf" -> Raise("OverflowError")
      [] x.t = "nan" -> Raise("ValueError")
      [] OTHER ->
            Ret(PyInt(IF x.num >= 0 THEN x.num \div x.den
                      ELSE -((-x.num) \div x.den)))

(* A variant of Max0 with the clamp left out. *)
Max0Unclamped(x) == x

(* max(0, x) for a float x: the int 0 unless x > 0 *)
Max0(x) == IF FloatGtZero(x) THEN x ELSE PyInt(0)

(* repr of a finite float with at most three decimals: the shortest text  *)
(* that reads back, which keeps one decimal at least.  A float with more   *)
(* decimals is cut to three (none is an input of the model).              *)
ThousandthsText(m, a, cut) ==
    (IF m < 0 THEN <<"-">> ELSE <<>>) \o NatToStr(a \div 1000) \o <<".">>
        \o (IF cut = <<>> THEN <<"0">> ELSE cut)

ThreeDecimals(frac) ==
    <<Digits[(frac \div 100) + 1], Digits[((frac \div 10) % 10) + 1],
      Digits[(frac % 10) + 1]>>

ThousandthsRepr(m, a) ==
    ThousandthsText(m, a, str_rstrip_char(ThreeDecimals(a % 1000), "0"))

SignedThousandths(m) == ThousandthsRepr(m, IF m < 0 THEN -m ELSE m)

FloatRepr(x) == SignedThousandths((x.num * 1000) \div x.den)

(* str(d) for a finite Decimal in plain notation *)
RECURSIVE ZeroPad(_, _)
ZeroPad(s, width) == IF Len(s) >= width THEN s ELSE ZeroPad(<<"0">> \o s, width)

DecimalStr(d) ==
    (IF d.neg THEN <<"-">> ELSE <<>>)
        \o NatToStr(d.coeff \div Pow10(d.scale))
        \o (IF d.scale = 0 THEN <<>>
            ELSE <<".">> \o ZeroPad(NatToStr(d.coeff % Pow10(d.scale)), d.scale))

(* str(v).  An object without a literal form prints as an opaque text. *)
py_str(v) ==
    CASE v.t = "str" -> v.s
      [] v.t = "None" -> <<"N", "o", "n", "e">>
      [] v.t = "int" -> IntToStr(v.i)
      [] v.t = "bool" -> IF v.b THEN <<"T", "r", "u", "e">>
                         ELSE <<"F", "a", "l", "s", "e">>
      [] v.t = "float" -> FloatRepr(v)
      [] v.t = "inf" -> IF v.sg < 0 THEN <<"-", "i", "n", "f">> ELSE <<"i", "n", "f">>
      [] v.t = "nan" -> <<"n", "a", "n">>
      [] v.t = "Decimal" -> DecimalStr(v)
      [] v.t = "DecimalNaN" -> <<"N", "a", "N">>
      [] v.t = "DecimalInf" ->
            (IF v.neg THEN <<"-">> ELSE <<>>)
                \o <<"I", "n", "f", "i", "n", "i", "t", "y">>
      [] OTHER -> <<"<", "o", "b", "j", ">">>

(* Decimal(text): InvalidOperation (ConversionSyntax) on a malformed text *)
DecimalOfParse(p) ==
    IF ~p.ok THEN Raise("InvalidOperation")
    ELSE IF p.kind = "inf" THEN Ret(DecimalInf(p.neg))
    ELSE IF p.kind = "nan" THEN Ret(DecimalNaN)
    ELSE Ret(PyDecimal(p.neg, p.coeff, p.scale))

DecimalOfStr(chars) == DecimalOfParse(ParseNumber(chars))

(* d.quantize(Decimal('0.01')) under the default context (ROUND_HALF_EVEN) *)
Quantize2(d) ==
    IF d.scale <= 2
    THEN PyDecimal(d.neg, d.coeff * Pow10(2 - d.scale), 2)
    ELSE PyDecimal(d.neg, RoundHalfEven(d.coeff, Pow10(d.scale - 2)), 2)

---------------------------------------------------------------------------
(* django.utils.timezone and datetime arithmetic *)

SecondsPerMinute == 60
SecondsPerDay == 86400

(* timezone.now() under USE_TZ = True: the clock, aware, in UTC *)
timezone_now == AwareDatetime(now, 0)

(* The instant an aware datetime denotes, in seconds UTC. *)
Instant(dt) == dt.wall - dt.off

(* timezone.is_aware(v) / timezone.is_naive(v): v.utcoffset() is (not) None *)
is_aware(v) == IF v.t = "datetime" THEN Ret(v.aware) ELSE Raise("AttributeError")
is_naive(v) == IF v.t = "datetime" THEN Ret(~v.aware) ELSE Raise("AttributeError")

(* timezone.make_aware(v): the same wall reading in the current timezone *)
make_aware(v) ==
    IF v.t # "datetime" THEN Raise("AttributeError")
    ELSE IF v.aware THEN Raise("ValueError")
    ELSE Ret(AwareDatetime(v.wall, tz))

(* timezone.localtime(v): the same instant read in the current timezone *)
localtime(v) ==
    IF v.t # "datetime" THEN Raise("AttributeError")
    ELSE IF ~v.aware THEN Raise("ValueError")
    ELSE Ret(AwareDatetime(Instant(v) + tz, tz))

(* timezone.localdate(v): localtime(v).date(), as a day number *)
PyDate(day) == [t |-> "date", day |-> day]
DateOf(lt) ==
    IF lt.kind = "raise" THEN lt ELSE Ret(PyDate(lt.val.wall \div SecondsPerDay))

localdate(v) == DateOf(localtime(v))

(* a - b on datetimes: seconds, or TypeError when naive meets aware *)
DatetimeSub(a, b) ==
    IF a.t # "datetime" \/ b.t # "datetime" THEN Raise("TypeError")
    ELSE IF a.aware # b.aware THEN Raise("TypeError")
    ELSE IF a.aware THEN Ret(Instant(a) - Instant(b))
    ELSE Ret(a.wall - b.wall)

(* a or b *)
PyOr(a, b) == IF Truthy(a) THEN a ELSE b

(* Variants of WholeMinutes with a slip: the clamp at 0 left out, and the *)
(* minutes rounded to the nearest instead of floored.                    *)
WholeMinutesUnclamped(seconds) == seconds \div SecondsPerMinute

WholeMinutesRounded(seconds) ==
    LET m == (seconds + 30) \div SecondsPerMinute
    IN  IF m > 0 THEN m ELSE 0

(* int(max(0, delta.total_seconds() // 60)) *)
WholeMinutes(seconds) ==
    LET m == seconds \div SecondsPerMinute
    IN  IF m > 0 THEN m ELSE 0

---------------------------------------------------------------------------
(* The filters *)

(* Two coerced operands, or the exception of the first that failed. *)
Both(x, y) ==
    IF x.kind = "raise" THEN x
    ELSE IF y.kind = "raise" THEN y
    ELSE Ret(<<x.val, y.val>>)

Quotient(xy) == IF xy.kind = "raise" THEN xy ELSE FloatDiv(xy.val[1], xy.val[2])

div(v, a) ==
    Except(IF v.t = "None" \/ a.t = "None" THEN Ret(PyInt(0))
           ELSE Quotient(Both(py_float(v), py_float(a))),
           {"ValueError", "ZeroDivisionError", "TypeError"}, PyInt(0))

Product(xy) ==
    IF xy.kind = "raise" THEN xy ELSE Ret(FloatMul(xy.val[1], xy.val[2]))

mul(v, a) ==
    Except(IF v.t = "None" \/ a.t = "None" THEN Ret(PyInt(0))
           ELSE Product(Both(py_float(v), py_float(a))),
           {"ValueError", "TypeError"}, PyInt(0))

(* if timezone.is_naive(v): v = timezone.make_aware(v), n being is_naive(v) *)
MadeAware(v, n) ==
    IF n.kind = "raise" THEN n
    ELSE IF n.val THEN make_aware(v)
    ELSE Ret(v)

DaysOfDelta(delta) ==
    IF delta.kind = "raise" THEN delta
    ELSE Ret(PyInt(delta.val \div SecondsPerDay))

DaysSince(aw) ==
    IF aw.kind = "raise" THEN aw ELSE DaysOfDelta(DatetimeSub(timezone_now, aw.val))

timesince_days(v) ==
    IF ~Truthy(v) THEN Ret(PyInt(0))
    ELSE Except(DaysSince(MadeAware(v, is_naive(v))),
                {"TypeError", "ValueError"}, PyInt(0))

ReplacePair(text, parts) == Ret(PyStr(str_replace(text, parts[1], parts[2])))

ReplaceIn(text, a) ==
    IF a.t # "str" THEN Raise("TypeError")
    ELSE IF str_contains(a.s, <<":">>) THEN ReplacePair(text, str_split1(a.s, ":"))
    ELSE Ret(PyStr(str_replace(text, a.s, <<>>)))

replace(v, a) ==
    IF ~Truthy(v) THEN Ret(v)
    ELSE Except(ReplaceIn(py_str(v), a), {"ValueError", "AttributeError"}, v)

dict_get(d, key) ==
    Except(IF Truthy(d) /\ HasAttr(d, "get")
           THEN IF key.t = "list" THEN Raise("TypeError")
                ELSE IF key.t = "str" /\ key.s \in DOMAIN d.d THEN Ret(d.d[key.s])
                ELSE Ret(PyNone)
           ELSE Ret(PyNone),
           {"Exception"}, PyNone)

(* A variant of status_mapping with a slip: assigned mapped to the raw   *)
(* in_progress, underscore kept.                                        *)
status_mapping_slip ==
    (<<"c", "r", "e", "a", "t", "e", "d">>
          :> <<"p", "e", "n", "d", "i", "n", "g">>)
    @@ (<<"a", "s", "s", "i", "g", "n", "e", "d">>
          :> <<"i", "n", "_", "p", "r", "o", "g", "r", "e", "s", "s">>)
    @@ (<<"i", "n", "_", "p", "r", "o", "g", "r", "e", "s", "s">>
          :> <<"i", "n", "-", "p", "r", "o", "g", "r", "e", "s", "s">>)
    @@ (<<"i", "n", "p", "r", "o", "g", "r", "e", "s", "s">>
          :> <<"i", "n", "-", "p", "r", "o", "g", "r", "e", "s", "s">>)
    @@ (<<"o", "v", "e", "r", "d", "u", "e">>
          :> <<"o", "v", "e", "r", "d", "u", "e">>)
    @@ (<<"c", "o", "m", "p", "l", "e", "t", "e", "d">>
          :> <<"c", "o", "m", "p", "l", "e", "t", "e", "d">>)
    @@ (<<"c", "a", "n", "c", "e", "l", "l", "e", "d">>
          :> <<"c", "a", "n", "c", "e", "l", "l", "e", "d">>)
    @@ (<<"p", "e", "n", "d", "i", "n", "g">>
          :> <<"p", "e", "n", "d", "i", "n", "g">>)
    @@ (<<"l", "o", "w">>
          :> <<"l", "o", "w">>)
    @@ (<<"m", "e", "d", "i", "u", "m">>
          :> <<"m", "e", "d", "i", "u", "m">>)
    @@ (<<"h", "i", "g", "h">>
          :> <<"h", "i", "g", "h">>)
    @@ (<<"u", "r", "g", "e", "n", "t">>
          :> <<"u", "r", "g", "e", "n", "t">>)

status_mapping ==
    (<<"c", "r", "e", "a", "t", "e", "d">>
          :> <<"p", "e", "n", "d", "i", "n", "g">>)
    @@ (<<"a", "s", "s", "i", "g", "n", "e", "d">>
          :> <<"i", "n", "-", "p", "r", "o", "g", "r", "e", "s", "s">>)
    @@ (<<"i", "n", "_", "p", "r", "o", "g", "r", "e", "s", "s">>
          :> <<"i", "n", "-", "p", "r", "o", "g", "r", "e", "s", "s">>)
    @@ (<<"i", "n", "p", "r", "o", "g", "r", "e", "s", "s">>
          :> <<"i", "n", "-", "p", "r", "o", "g", "r", "e", "s", "s">>)
    @@ (<<"o", "v", "e", "r", "d", "u", "e">>
          :> <<"o", "v", "e", "r", "d", "u", "e">>)
    @@ (<<"c", "o", "m", "p", "l", "e", "t", "e", "d">>
          :> <<"c", "o", "m", "p", "l", "e", "t", "e", "d">>)
    @@ (<<"c", "a", "n", "c", "e", "l", "l", "e", "d">>
          :> <<"c", "a", "n", "c", "e", "l", "l", "e", "d">>)
    @@ (<<"p", "e", "n", "d", "i", "n", "g">>
          :> <<"p", "e", "n", "d", "i", "n", "g">>)
    @@ (<<"l", "o", "w">>
          :> <<"l", "o", "w">>)
    @@ (<<"m", "e", "d", "i", "u", "m">>
          :> <<"m", "e", "d", "i", "u", "m">>)
    @@ (<<"h", "i", "g", "h">>
          :> <<"h", "i", "g", "h">>)
    @@ (<<"u", "r", "g", "e", "n", "t">>
          :> <<"u", "r", "g", "e", "n", "t">>)

CssOfCleaned(cleaned) ==
    IF cleaned \in DOMAIN status_mapping
    THEN Ret(PyStr(status_mapping[cleaned]))
    ELSE Ret(PyStr(str_replace(cleaned, <<"_">>, <<"-">>)))

to_css_class(v) ==
    IF ~Truthy(v) THEN Ret(PyStr(<<>>))
    ELSE CssOfCleaned(str_strip(str_lower(py_str(v))))

(* 'new' if visits <= 1 else 'returning' *)
StatusByVisits(visits) ==
    IF visits.t \notin {"int", "float"} THEN Raise("TypeError")
    ELSE IF (IF visits.t = "int" THEN visits.i <= 1 ELSE visits.num <= visits.den)
    THEN Ret(PyStr(<<"n", "e", "w">>))
    ELSE Ret(PyStr(<<"r", "e", "t", "u", "r", "n", "i", "n", "g">>))

StatusByDate(customer, today, reg_date) ==
    IF today.kind = "raise" THEN today
    ELSE IF reg_date.kind = "raise" THEN reg_date
    ELSE IF reg_date.val = today.val THEN Ret(PyStr(<<"n", "e", "w">>))
    ELSE StatusByVisits(PyOr(GetAttr(customer, "total_visits", PyInt(0)), PyInt(0)))

StatusOf(customer, reg) ==
    StatusByDate(customer, localdate(timezone_now),
                 IF Truthy(reg) THEN localdate(reg) ELSE Ret(PyNone))

customer_status(customer) ==
    Except(IF ~Truthy(customer) THEN Ret(PyStr(<<>>))
           ELSE StatusOf(customer, GetAttr(customer, "registration_date", PyNone)),
           {"Exception"}, PyStr(<<>>))

AbsOf(x) == IF x.kind = "raise" THEN x ELSE Ret(FloatAbs(x.val))

absolute_value(v) ==
    Except(Except(AbsOf(py_float(v)), {"ValueError", "TypeError"}, v),
           {"Exception"}, PyStr(<<>>))

(* A variant of TimestampAttrs with cancelled_at ahead of completed_at. *)
TimestampAttrsSwapped ==
    <<"cancelled_at", "completed_at", "started_at", "assigned_at", "created_at">>

TimestampAttrs ==
    <<"completed_at", "cancelled_at", "started_at", "assigned_at", "created_at">>

(* The loop of order_last_update from the k-th attribute on. *)
RECURSIVE FirstTimestamp(_, _, _)
TimestampFrom(order, attrs, k, val) ==
    IF Truthy(val) THEN MadeAware(val, is_naive(val))
    ELSE FirstTimestamp(order, attrs, k + 1)

FirstTimestamp(order, attrs, k) ==
    IF k > Len(attrs) THEN Ret(timezone_now)
    ELSE TimestampFrom(order, attrs, k, GetAttr(order, attrs[k], PyNone))

order_last_update(order) ==
    Except(IF ~Truthy(order) THEN Ret(PyNone)
           ELSE FirstTimestamp(order, TimestampAttrs, 1),
           {"Exception"}, timezone_now)

(* d.get(key, default) on a mapping keyed by text *)
DictGet(d, key, default) == IF key \in DOMAIN d.d THEN d.d[key] ELSE default

(* The two coerced operands of margin_percentage, or the first exception. *)
MarginOperands(price, cost_price) ==
    IF cost_price.t = "None" /\ HasAttr(price, "get")
    THEN Both(py_float(DictGet(price, <<"p", "r", "i", "c", "e">>, PyInt(0))),
              py_float(DictGet(price, <<"c", "o", "s", "t", "_", "p", "r", "i", "c", "e">>, PyInt(0))))
    ELSE IF cost_price.t = "None" /\ HasAttr(price, "price")
                                  /\ HasAttr(price, "cost_price")
    THEN Both(py_float(price.a["price"]), py_float(price.a["cost_price"]))
    ELSE Both(py_float(price),
              IF cost_price.t # "None" THEN py_float(cost_price)
              ELSE Ret(PyFloat(0, 1)))

(* round(margin, 2), q being (price_val - cost_val) / price_val *)
RoundedPercent(q) ==
    IF q.kind = "raise" THEN q
    ELSE Ret(FloatRound2(FloatMul(q.val, PyFloat(100, 1))))

MarginOf(price_val, cost_val) ==
    IF FloatLeZero(price_val) \/ FloatLeZero(cost_val) THEN Ret(PyInt(0))
    ELSE RoundedPercent(FloatDiv(FloatSub(price_val, cost_val), price_val))

MarginOfOperands(vals) ==
    IF vals.kind = "raise" THEN vals ELSE MarginOf(vals.val[1], vals.val[2])

margin_percentage(price, cost_price) ==
    Except(Except(MarginOfOperands(MarginOperands(price, cost_price)),
                  {"ValueError", "TypeError", "AttributeError"}, PyInt(0)),
           {"Exception"}, PyStr(<<>>))

safe_filesize(file_field) ==
    Except(IF ~Truthy(file_field) THEN Ret(PyInt(0))
           ELSE IF file_field.t # "file" THEN Raise("AttributeError")
           ELSE IF file_field.name = <<>> THEN Ret(PyInt(0))
           ELSE IF ~file_field.ondisk THEN Raise("FileNotFoundError")
           ELSE Ret(PyInt(file_field.size)),
           {"FileNotFoundError", "OSError", "Exception"}, PyInt(0))

HoursAndMinutes(hours, mins) ==
    IF hours # 0 /\ mins # 0
    THEN Ret(PyStr(IntToStr(hours) \o <<"h", " ">> \o IntToStr(mins) \o <<"m">>))
    ELSE IF hours # 0 THEN Ret(PyStr(IntToStr(hours) \o <<"h">>))
    ELSE Ret(PyStr(IntToStr(mins) \o <<"m">>))

MinutesText(total) ==
    IF total.kind = "raise" THEN total
    ELSE HoursAndMinutes(total.val.i \div 60, total.val.i % 60)

(* int(max(0, float(value))) *)
TotalMinutes(f) == IF f.kind = "raise" THEN f ELSE py_int(Max0(f.val))

format_minutes(v) ==
    Except(IF v.t = "None" THEN Ret(PyStr(<<>>))
           ELSE MinutesText(TotalMinutes(py_float(v))),
           {"ValueError", "TypeError"}, PyStr(<<>>))

MinutesOfDelta(delta) ==
    IF delta.kind = "raise" THEN delta ELSE Ret(PyInt(WholeMinutes(delta.val)))

MinutesSince(dt) ==
    IF dt.kind = "raise" THEN dt
    ELSE MinutesOfDelta(DatetimeSub(timezone_now, dt.val))

(* timezone.localtime(start) if timezone.is_aware(start) else start *)
LocalReading(start, aw) ==
    IF aw.kind = "raise" THEN aw
    ELSE IF aw.val THEN localtime(start)
    ELSE Ret(start)

ElapsedSince(start) ==
    IF ~Truthy(start) THEN Ret(PyInt(0))
    ELSE MinutesSince(LocalReading(start, is_aware(start)))

elapsed_minutes(order) ==
    Except(ElapsedSince(PyOr(GetAttr(order, "started_at", PyNone),
                             GetAttr(order, "created_at", PyNone))),
           {"Exception"}, PyInt(0))

prefixes ==
    <<<<"s", "e", "l", "e", "c", "t", "e", "d", " ", "s", "e", "r", "v", "i", "c", "e", "s", ":">>,
      <<"s", "e", "r", "v", "i", "c", "e", "s", ":">>,
      <<"t", "i", "r", "e", " ", "s", "e", "r", "v", "i", "c", "e", "s", ":">>,
      <<"a", "d", "d", "-", "o", "n", "s", ":">>>>

(* [s.strip() for s in text.split(',') if s.strip()] *)
RECURSIVE StrippedItems(_)
StrippedItems(pieces) ==
    IF pieces = <<>> THEN <<>>
    ELSE (IF str_strip(Head(pieces)) # <<>> THEN <<str_strip(Head(pieces))>>
          ELSE <<>>) \o StrippedItems(Tail(pieces))

(* What one line adds to services: the inner loop over prefixes, from the *)
(* k-th prefix on.                                                        *)
RECURSIVE LineServices(_, _)
ItemsOfText(services_text) ==
    IF services_text # <<>> THEN StrippedItems(str_split(services_text, ","))
    ELSE <<>>

(* A variant of LineServices with a slip: the label looked for anywhere  *)
(* in the line, not only at its start.                                  *)
RECURSIVE LineServicesAnywhere(_, _)
LineServicesAnywhere(line, k) ==
    IF k > Len(prefixes) THEN <<>>
    ELSE (IF str_contains(str_lower(str_strip(line)), prefixes[k])
          THEN ItemsOfText(IF str_contains(line, <<":">>)
                           THEN str_strip(str_split1(line, ":")[2])
                           ELSE <<>>)
          ELSE <<>>) \o LineServicesAnywhere(line, k + 1)

LineServices(line, k) ==
    IF k > Len(prefixes) THEN <<>>
    ELSE (IF str_startswith(str_lower(str_strip(line)), prefixes[k])
          THEN ItemsOfText(IF str_contains(line, <<":">>)
                           THEN str_strip(str_split1(line, ":")[2])
                           ELSE <<>>)
          ELSE <<>>) \o LineServices(line, k + 1)

RECURSIVE AllServices(_)
AllServices(lines) ==
    IF lines = <<>> THEN <<>>
    ELSE LineServices(Head(lines), 1) \o AllServices(Tail(lines))

extract_services(description) ==
    IF ~Truthy(description) THEN Ret(PyList(<<>>))
    ELSE IF description.t # "str" THEN Raise("AttributeError")
    ELSE Ret(PyList(AllServices(str_split(description.s, "\n"))))

SpanMinutes(start_time, end_time) ==
    IF end_time.kind = "raise" THEN end_time
    ELSE MinutesOfDelta(DatetimeSub(end_time.val, start_time))

(* completed_at made aware for a completed order, now for the others *)
EndTime(completed) ==
    IF Truthy(completed) THEN MadeAware(completed, is_naive(completed))
    ELSE Ret(timezone_now)

ActualBetween(start_time, completed) ==
    IF start_time.kind = "raise" THEN start_time
    ELSE IF completed.kind = "raise" THEN completed
    ELSE SpanMinutes(start_time.val, EndTime(completed.val))

ActualFromStart(start_time, completed) ==
    IF ~Truthy(start_time) THEN Ret(PyInt(0))
    ELSE ActualBetween(MadeAware(start_time, is_naive(start_time)), completed)

ActualFromFields(started, created, completed) ==
    IF started.kind = "raise" THEN started
    ELSE IF ~Truthy(started.val) /\ created.kind = "raise" THEN created
    ELSE ActualFromStart(PyOr(started.val, created.val), completed)

actual_time_minutes(order) ==
    Except(IF ~Truthy(order) THEN Ret(PyInt(0))
           ELSE ActualFromFields(Attr(order, "started_at"),
                                 Attr(order, "created_at"),
                                 Attr(order, "completed_at")),
           {"Exception"}, PyInt(0))

has_type(components_queryset, component_type) ==
    Except(IF ~Truthy(components_queryset) THEN Ret(PyBool(FALSE))
           ELSE IF components_queryset.t # "queryset" THEN Raise("AttributeError")
           ELSE IF component_type.t # "str" THEN Raise("AttributeError")
           ELSE Ret(PyBool(str_lower(component_type.s)
                               \in components_queryset.types)),
           {"Exception"}, PyBool(FALSE))

(* The text format_qty builds from the Decimal num. *)
(* result.rstrip('0').rstrip('.') when result holds a point *)
StripDecimals(text) ==
    IF str_contains(text, <<".">>)
    THEN Ret(str_rstrip_char(str_rstrip_char(text, "0"), "."))
    ELSE Ret(text)

(* int(num), for an integral finite num *)
DecimalToInt(num, whole) == IF num.neg THEN -whole ELSE whole

QtyText(num) ==
    IF num.t = "DecimalInf" THEN Raise("InvalidOperation")
    ELSE IF num.t = "DecimalNaN" THEN Ret(py_str(num))
    ELSE StripDecimals(IF num.coeff % Pow10(num.scale) # 0
                       THEN DecimalStr(Quantize2(num))
                       ELSE IntToStr(DecimalToInt(num,
                                         num.coeff \div Pow10(num.scale))))

QtyResult(text) == IF text.kind = "raise" THEN text ELSE Ret(PyStr(text.val))

QtyOfDecimal(num) == IF num.kind = "raise" THEN num ELSE QtyText(num.val)

format_qty(v) ==
    Except(IF v.t = "None" \/ v = PyStr(<<>>) THEN Ret(PyStr(<<"0">>))
           ELSE QtyResult(QtyOfDecimal(IF v.t = "str" THEN DecimalOfStr(v.s)
                                       ELSE DecimalOfStr(py_str(v)))),
           {"ValueError", "TypeError", "ZeroDivisionError"},
           IF v.t = "None" THEN PyStr(<<"0">>) ELSE PyStr(py_str(v)))

---------------------------------------------------------------------------
(* Orders and the clock: elapsed_minutes, actual_time_minutes and          *)
(* order_last_update called on one order while time passes.               *)

MaxNow == 180
TickStep == 45
TzOffsets == {0, 10800}

NoResult == Ret(PyNone)

(* What a timestamp field of an order may hold: unset, or a naive or an   *)
(* aware reading before, within or after the span the clock covers.       *)
StampValues ==
    {PyNone, NaiveDatetime(30), AwareDatetime(100, 0), AwareDatetime(200, 0)}
CancelledValues == {PyNone, NaiveDatetime(60), AwareDatetime(60, 0)}
AssignedValues == {PyNone, NaiveDatetime(60), AwareDatetime(60, 0)}

Order(completed, cancelled, started, assigned, created) ==
    PyRecord([completed_at |-> completed, cancelled_at |-> cancelled,
              started_at |-> started, assigned_at |-> assigned,
              created_at |-> created])

Orders ==
    {Order(co, ca, st, asg, cr) :
        co \in StampValues, ca \in CancelledValues, st \in StampValues,
        asg \in AssignedValues, cr \in StampValues}

InitOrder ==
    /\ now = 0
    /\ tz \in TzOffsets
    /\ op = ""
    /\ value \in Orders
    /\ arg = PyNone
    /\ result = NoResult

(* Time passes between two renderings of a page. *)
Tick ==
    /\ now + TickStep <= MaxNow
    /\ now' = now + TickStep
    /\ op' = "tick"
    /\ result' = NoResult
    /\ UNCHANGED <<tz, value, arg>>

ElapsedMinutes ==
    /\ op' = "elapsed_minutes"
    /\ result' = elapsed_minutes(value)
    /\ UNCHANGED <<now, tz, value, arg>>

ActualTimeMinutes ==
    /\ op' = "actual_time_minutes"
    /\ result' = actual_time_minutes(value)
    /\ UNCHANGED <<now, tz, value, arg>>

OrderLastUpdate ==
    /\ op' = "order_last_update"
    /\ result' = order_last_update(value)
    /\ UNCHANGED <<now, tz, value, arg>>

NextOrder == Tick \/ ElapsedMinutes \/ ActualTimeMinutes \/ OrderLastUpdate

SpecOrder == InitOrder /\ [][NextOrder]_vars

(* C2: whatever started_at, created_at and completed_at hold (unset, past *)
(* or future, naive or aware, a start later than now, a completion       *)
(* earlier than the start) and whatever the clock reads, elapsed_minutes *)
(* and actual_time_minutes each return an integer >= 0.                  *)
C2_MinutesNeverNegative ==
    op \in {"elapsed_minutes", "actual_time_minutes"} =>
        /\ result.kind = "return"
        /\ result.val.t = "int"
        /\ result.val.i >= 0

(* elapsed_minutes was called on an order whose start lies after now. *)
C2_Witness ==
    /\ op = "elapsed_minutes"
    /\ value.a.started_at = AwareDatetime(200, 0)
    /\ now < 200
    /\ result = Ret(PyInt(0))

(* C3: order_last_update returns the first set field in the order        *)
(* completed_at, cancelled_at, started_at, assigned_at, created_at, made *)
(* aware in the current timezone when it is naive, whatever the fields   *)
(* after it hold; with none of the five set it returns the current time. *)
C3_LastUpdateIsFirstSetField ==
    op = "order_last_update" =>
        LET priority == <<"completed_at", "cancelled_at", "started_at",
                          "assigned_at", "created_at">>
            set == {k \in 1..5 : value.a[priority[k]] # PyNone}
        IN  IF set = {} THEN result = Ret(AwareDatetime(now, 0))
            ELSE LET first == CHOOSE k \in set : \A j \in set : k <= j
                     field == value.a[priority[first]]
                 IN  result = Ret(IF field.aware THEN field
                                  ELSE AwareDatetime(field.wall, tz))

(* order_last_update was called with all five fields set and a naive     *)
(* completed_at, in a timezone away from UTC.                            *)
C3_Witness ==
    /\ op = "order_last_update"
    /\ \A k \in DOMAIN value.a : value.a[k] # PyNone
    /\ value.a.completed_at = NaiveDatetime(30)
    /\ value.a.cancelled_at = AwareDatetime(60, 0)
    /\ tz # 0
    /\ result = Ret(AwareDatetime(30, tz))

(* C4, the value: with start the started_at if set and else created_at,  *)
(* and end the completed_at if set and else now (naive readings taken in *)
(* the current timezone), actual_time_minutes returns                    *)
(* floor((end - start) / 1 minute) clamped at 0, and 0 without a start.  *)
C4_Value ==
    op = "actual_time_minutes" =>
        LET InstantOf(d) == IF d.aware THEN d.wall - d.off ELSE d.wall - tz
            start == IF value.a.started_at # PyNone THEN value.a.started_at
                     ELSE value.a.created_at
            end == IF value.a.completed_at # PyNone
                   THEN InstantOf(value.a.completed_at)
                   ELSE now
        IN  IF start = PyNone THEN result = Ret(PyInt(0))
            ELSE LET m == (end - InstantOf(start)) \div 60
                 IN  result = Ret(PyInt(IF m < 0 THEN 0 ELSE m))

(* C4, over time: while the order stays as it is, a later clock gives    *)
(* the same result when completed_at is set and no smaller one when not. *)
C4_Step ==
    (value' = value /\ tz' = tz) =>
        IF value.a.completed_at # PyNone
        THEN actual_time_minutes(value)' = actual_time_minutes(value)
        ELSE actual_time_minutes(value)'.val.i >= actual_time_minutes(value).val.i

(* C4: actual_time_minutes is the floored, clamped span from start to    *)
(* end; it is constant over time once completed_at is set and never      *)
(* decreases while it is unset.                                          *)
C4_ActualTime == []C4_Value /\ [][C4_Step]_vars

(* actual_time_minutes was called on an open order whose span so far is  *)
(* a whole minute and a part of the next.                                *)
C4_Witness ==
    /\ op = "actual_time_minutes"
    /\ value.a.completed_at = PyNone
    /\ value.a.started_at = NaiveDatetime(30)
    /\ tz = 0
    /\ now - 30 > 60
    /\ (now - 30) % 60 # 0
    /\ result = Ret(PyInt((now - 30) \div 60))

---------------------------------------------------------------------------
(* Customers: customer_status called while the days pass. *)

MaxDayNow == 129600
HalfDay == 43200
CustomerTzOffsets == {-18000, 0, 10800}

RegistrationValues ==
    {PyNone, NaiveDatetime(3600), AwareDatetime(3600, 0), NaiveDatetime(80000),
     AwareDatetime(80000, 0), NaiveDatetime(90000), AwareDatetime(90000, 0)}
VisitValues == {PyNone, PyInt(0), PyInt(1), PyInt(2), PyInt(5)}

(* A customer record, with and without the total_visits attribute, and   *)
(* the absent customer.                                                  *)
Customers ==
    {PyRecord([registration_date |-> r, total_visits |-> n]) :
        r \in RegistrationValues, n \in VisitValues}
    \cup {PyRecord([registration_date |-> r]) : r \in RegistrationValues}
    \cup {PyNone}

InitCustomer ==
    /\ now = 0
    /\ tz \in CustomerTzOffsets
    /\ op = ""
    /\ value \in Customers
    /\ arg = PyNone
    /\ result = NoResult

HalfDayPasses ==
    /\ now + HalfDay <= MaxDayNow
    /\ now' = now + HalfDay
    /\ op' = "tick"
    /\ result' = NoResult
    /\ UNCHANGED <<tz, value, arg>>

CustomerStatus ==
    /\ op' = "customer_status"
    /\ result' = customer_status(value)
    /\ UNCHANGED <<now, tz, value, arg>>

NextCustomer == HalfDayPasses \/ CustomerStatus

SpecCustomer == InitCustomer /\ [][NextCustomer]_vars

(* C5: for a truthy customer, customer_status returns "new" when the     *)
(* registration date, read as a local date (a naive one taken in the     *)
(* current timezone first), is today, or when total_visits (0 when       *)
(* missing or null) is at most 1, and "returning" otherwise; the empty   *)
(* string comes back only for a falsy customer.                          *)
C5_CustomerStatus ==
    op = "customer_status" =>
        IF ~Truthy(value) THEN result = Ret(PyStr(<<>>))
        ELSE LET reg == value.a.registration_date
                 regDay == IF reg.aware
                           THEN (reg.wall - reg.off + tz) \div 86400
                           ELSE reg.wall \div 86400
                 today == (now + tz) \div 86400
                 visits == IF "total_visits" \in DOMAIN value.a
                              /\ value.a.total_visits # PyNone
                           THEN value.a.total_visits.i
                           ELSE 0
             IN  IF (reg # PyNone /\ regDay = today) \/ visits <= 1
                 THEN result = Ret(PyStr(<<"n", "e", "w">>))
                 ELSE result = Ret(PyStr(<<"r", "e", "t", "u", "r", "n", "i", "n", "g">>))

---------------------------------------------------------------------------
(* Prices and costs: margin_percentage in its three calling forms. *)

MaxAmount == 100

(* Amounts: negative, zero and positive numbers up to MaxAmount, one     *)
(* with decimals, each as a number and as its numeric text.              *)
AmountNumbers ==
    {PyInt(n) : n \in {-5, 0, 3, 7, 50, 60, MaxAmount}} \cup {PyFloat(5, 2)}
Amounts == AmountNumbers \cup {PyStr(py_str(n)) : n \in AmountNumbers}

PriceMapping(p, c) == PyDict((<<"p", "r", "i", "c", "e">> :> p) @@ (<<"c", "o", "s", "t", "_", "p", "r", "i", "c", "e">> :> c))
PricedItem(p, c) == PyRecord([price |-> p, cost_price |-> c])

(* Between two filter calls of a rendering: no call in progress. *)
InitIdle ==
    /\ now = 0
    /\ tz = 0
    /\ op = ""
    /\ value = PyNone
    /\ arg = PyNone
    /\ result = NoResult

(* The template has used the value the filter returned. *)
Rendered ==
    /\ op # ""
    /\ op' = ""
    /\ value' = PyNone
    /\ arg' = PyNone
    /\ result' = NoResult
    /\ UNCHANGED <<now, tz>>

MarginOfTwoValues ==
    \E p \in Amounts, c \in Amounts :
        /\ op = ""
        /\ op' = "margin_percentage"
        /\ value' = p
        /\ arg' = c
        /\ result' = margin_percentage(p, c)
        /\ UNCHANGED <<now, tz>>

MarginOfMapping ==
    \E p \in Amounts, c \in Amounts :
        /\ op = ""
        /\ op' = "margin_percentage"
        /\ value' = PriceMapping(p, c)
        /\ arg' = PyNone
        /\ result' = margin_percentage(PriceMapping(p, c), PyNone)
        /\ UNCHANGED <<now, tz>>

MarginOfRecord ==
    \E p \in Amounts, c \in Amounts :
        /\ op = ""
        /\ op' = "margin_percentage"
        /\ value' = PricedItem(p, c)
        /\ arg' = PyNone
        /\ result' = margin_percentage(PricedItem(p, c), PyNone)
        /\ UNCHANGED <<now, tz>>

NextMargin == MarginOfTwoValues \/ MarginOfMapping \/ MarginOfRecord \/ Rendered

SpecMargin == InitIdle /\ [][NextMargin]_vars

(* C6: for a price p and a cost c, as numbers or numeric texts, given as *)
(* two values or as one mapping or record with price and cost_price,     *)
(* margin_percentage returns 0 when p <= 0 or c <= 0 and otherwise       *)
(* 100 * (p - c) / p to 2 decimals (negative when c > p); the three      *)
(* forms agree; (100, 60) gives 40.0, {price: 100, cost_price: 50} 50.0. *)
C6_MarginPercentage ==
    /\ margin_percentage(PyInt(100), PyInt(60)) = Ret(PyFloat(40, 1))
    /\ margin_percentage(PriceMapping(PyInt(100), PyInt(50)), PyNone)
            = Ret(PyFloat(50, 1))
    /\ op = "margin_percentage" =>
        LET p == IF value.t = "dict" THEN value.d[<<"p", "r", "i", "c", "e">>]
                 ELSE IF value.t = "record" THEN value.a.price ELSE value
            c == IF value.t = "dict" THEN value.d[<<"c", "o", "s", "t", "_", "p", "r", "i", "c", "e">>]
                 ELSE IF value.t = "record" THEN value.a.cost_price ELSE arg
            pv == py_float(p).val
            cv == py_float(c).val
            exactNum == 100 * (pv.num * cv.den - cv.num * pv.den)
            exactDen == pv.num * cv.den
            Abs(n) == IF n < 0 THEN -n ELSE n
        IN  /\ result.kind = "return"
            /\ IF pv.num <= 0 \/ cv.num <= 0 THEN result.val = PyInt(0)
               ELSE /\ result.val.t = "float"
                    /\ 100 % result.val.den = 0
                    /\ 200 * Abs(result.val.num * exactDen
                                    - exactNum * result.val.den)
                         <= result.val.den * exactDen
                    /\ (cv.num * pv.den > pv.num * cv.den) => result.val.num < 0
            /\ margin_percentage(p, c) = result
            /\ margin_percentage(PriceMapping(p, c), PyNone) = result
            /\ margin_percentage(PricedItem(p, c), PyNone) = result

(* margin_percentage was called on a record whose cost, a numeric text,  *)
(* exceeds its price: the margin is negative and has decimals.           *)
C6_Witness ==
    /\ op = "margin_percentage"
    /\ value = PricedItem(PyInt(7), PyStr(<<"5", "0">>))
    /\ result = Ret(PyFloat(-61429, 100))

---------------------------------------------------------------------------
(* Durations: format_minutes. *)

MaxMinutes == 125

MinutesInputs ==
    {PyInt(n) : n \in -5..MaxMinutes}
    \cup {PyFloat(181, 2), PyFloat(-1, 2), PyFloat(59999, 1000), PyFloat(120, 1)}
    \cup {PyStr(<<"9", "0">>), PyStr(<<"6", "0">>), PyStr(<<"5">>), PyStr(<<"-", "5">>), PyStr(<<" ", "6", "1", " ">>),
          PyStr(<<"9", "0", ".", "5">>), PyStr(<<"b", "a", "d">>), PyStr(<<>>), PyStr(<<"i", "n", "f">>),
          PyStr(<<"-", "i", "n", "f">>)}
    \cup {PyNone, PyInf(1), PyInf(-1), PyNaN, PyObject, PyList(<<>>)}

FormatMinutes ==
    \E v \in MinutesInputs :
        /\ op = ""
        /\ op' = "format_minutes"
        /\ value' = v
        /\ result' = format_minutes(v)
        /\ UNCHANGED <<now, tz, arg>>

NextMinutes == FormatMinutes \/ Rendered

SpecMinutes == InitIdle /\ [][NextMinutes]_vars

---------------------------------------------------------------------------
(* Quantities: format_qty. *)

MaxScale == 3

(* Coefficients of the decimals tried: with 0 to MaxScale decimals they  *)
(* give integral values (10, 100, 4.000), values with one or two         *)
(* decimals (4.5, 4.05) and values the rounding to 2 decimals changes    *)
(* (4.005, 4.015, 0.001).                                                *)
QtyCoeffs == {0, 1, 5, 10, 15, 45, 100, 405, 450, 4000, 4005, 4015, 4050, 4500}

QtyDecimals ==
    {PyDecimal(neg, coeff, scale) :
        neg \in BOOLEAN, coeff \in QtyCoeffs, scale \in 0..MaxScale}

QtyInputs ==
    QtyDecimals
    \cup {PyStr(DecimalStr(d)) : d \in QtyDecimals}
    \cup {PyInt(0), PyInt(4), PyInt(10), PyInt(100), PyInt(-3)}
    \cup {PyFloat(4, 1), PyFloat(9, 2), PyFloat(81, 20), PyFloat(-1, 8)}
    \cup {PyStr(<<" ", "4", ".", "5", "0", " ">>), PyStr(<<"a", "b", "c">>), PyStr(<<"4", ",", "5">>), PyStr(<<"1", ".", "2", ".", "3">>),
          PyStr(<<>>), PyNone, PyObject, PyBool(TRUE)}
    \cup {PyInf(1), PyNaN, PyStr(<<"i", "n", "f">>)}

FormatQty ==
    \E v \in QtyInputs :
        /\ op = ""
        /\ op' = "format_qty"
        /\ value' = v
        /\ result' = format_qty(v)
        /\ UNCHANGED <<now, tz, arg>>

NextQty == FormatQty \/ Rendered

SpecQty == InitIdle /\ [][NextQty]_vars

(* The quantity an input of format_qty denotes: sign, coefficient and    *)
(* number of decimals; ok is false when it denotes no finite number.     *)
QtyRead(v) ==
    CASE v.t = "Decimal" ->
            [ok |-> TRUE, neg |-> v.neg, coeff |-> v.coeff, scale |-> v.scale]
      [] v.t = "int" ->
            [ok |-> TRUE, neg |-> v.i < 0,
             coeff |-> IF v.i < 0 THEN -v.i ELSE v.i, scale |-> 0]
      [] v.t = "float" ->
            [ok |-> TRUE, neg |-> v.num < 0,
             coeff |-> ((IF v.num < 0 THEN -v.num ELSE v.num) * 1000) \div v.den,
             scale |-> 3]
      [] v.t = "str" /\ ParseNumber(v.s).kind = "finite" ->
            [ok |-> TRUE, neg |-> ParseNumber(v.s).neg,
             coeff |-> ParseNumber(v.s).coeff, scale |-> ParseNumber(v.s).scale]
      [] OTHER -> [ok |-> FALSE, neg |-> FALSE, coeff |-> 0, scale |-> 0]

(* The text of h hundredths with trailing zeros of the fraction and a    *)
(* trailing point dropped, after the sign.                               *)
HundredthsText(neg, h) ==
    (IF neg THEN <<"-">> ELSE <<>>) \o NatToStr(h \div 100)
        \o (IF h % 100 = 0 THEN <<>>
            ELSE IF h % 10 = 0 THEN <<".", Digits[((h \div 10) % 10) + 1]>>
            ELSE <<".", Digits[((h \div 10) % 10) + 1], Digits[(h % 10) + 1]>>)

(* What C8 states of a finite quantity q: an integral one is written as  *)
(* its integer, a non-integral one as its nearest hundredths, stripped.  *)
QtyAsClaimed(q, text) ==
    LET unit == Pow10(q.scale)
    IN  IF q.coeff % unit = 0
        THEN text = IntToStr(IF q.neg THEN -(q.coeff \div unit) ELSE q.coeff \div unit)
        ELSE \E h \in (q.coeff * 100) \div unit .. ((q.coeff * 100) \div unit) + 1 :
                /\ 2 * (IF h * unit > q.coeff * 100 THEN h * unit - q.coeff * 100
                        ELSE q.coeff * 100 - h * unit) <= unit
                /\ text = HundredthsText(q.neg, h)

(* C8, for numbers: format_qty writes an integral quantity as an integer *)
(* with all its digits and no point, and a non-integral one rounded to 2 *)
(* decimals and stripped of trailing fractional zeros and of a trailing  *)
(* point; None and the empty string give "0".                            *)
C8_FormatsNumbers ==
    /\ format_qty(PyFloat(4, 1)) = Ret(PyStr(<<"4">>))
    /\ format_qty(PyFloat(9, 2)) = Ret(PyStr(<<"4", ".", "5">>))
    /\ format_qty(PyFloat(81, 20)) = Ret(PyStr(<<"4", ".", "0", "5">>))
    /\ op = "format_qty" =>
        IF value = PyNone \/ value = PyStr(<<>>) THEN result = Ret(PyStr(<<"0">>))
        ELSE QtyRead(value).ok =>
                /\ result.kind = "return"
                /\ result.val.t = "str"
                /\ QtyAsClaimed(QtyRead(value), result.val.s)

(* C8: as C8_FormatsNumbers and, on a coercion failure, format_qty       *)
(* returns the stringified original input.                               *)
C8_FormatQty ==
    /\ C8_FormatsNumbers
    /\ (op = "format_qty" /\ value # PyNone /\ value.t \notin {"inf", "nan"}
            /\ ~QtyRead(value).ok
            /\ ~(value.t = "str" /\ ParseNumber(value.s).ok))
        => result = Ret(PyStr(py_str(value)))

---------------------------------------------------------------------------
(* Order descriptions: extract_services. *)

MaxLines == 2

ServiceLabels ==
    {<<"S", "e", "r", "v", "i", "c", "e", "s", ":">>, <<"S", "E", "L", "E", "C", "T", "E", "D", " ", "S", "E", "R", "V", "I", "C", "E", "S", ":">>, <<" ", "t", "i", "r", "e", " ", "s", "e", "r", "v", "i", "c", "e", "s", ":">>, <<"A", "d", "d", "-", "O", "n", "s", ":">>,
     <<"O", "t", "h", "e", "r", ":">>, <<"M", "y", " ", "s", "e", "r", "v", "i", "c", "e", "s", ":">>, <<"s", "e", "r", "v", "i", "c", "e", "s">>}
ServiceBodies == {<<" ", "O", "i", "l", ",", " ", "T", "i", "r", "e">>, <<"O", "i", "l", ",", ",", "O", "i", "l", " ">>, <<>>, <<" ", "x", ":", " ", "y", ",", " ", "z">>}
ServiceLines == {label \o body : label \in ServiceLabels, body \in ServiceBodies}

(* "\n".join(lines) *)
RECURSIVE JoinLines(_, _)
JoinLines(lines, k) ==
    IF k > Len(lines) THEN <<>>
    ELSE (IF k > 1 THEN <<"\n">> ELSE <<>>) \o lines[k] \o JoinLines(lines, k + 1)

Descriptions ==
    {PyStr(JoinLines(lines, 1)) :
        lines \in UNION {[1..n -> ServiceLines] : n \in 0..MaxLines}}
    \cup {PyNone}

ExtractServices ==
    \E d \in Descriptions :
        /\ op = ""
        /\ op' = "extract_services"
        /\ value' = d
        /\ result' = extract_services(d)
        /\ UNCHANGED <<now, tz, arg>>

NextServices == ExtractServices \/ Rendered

SpecServices == InitIdle /\ [][NextServices]_vars

(* C9: extract_services returns, in line order, the trimmed non-empty    *)
(* comma-separated items after the first colon of each line that, once   *)
(* trimmed, starts in any case with 'selected services:', 'services:',   *)
(* 'tire services:' or 'add-ons:'; a line counts once, duplicates stay,  *)
(* other lines add nothing, and an empty description gives [].           *)
C9_ExtractServices ==
    /\ extract_services(PyStr(<<"S", "e", "r", "v", "i", "c", "e", "s", ":", " ", "O", "i", "l", " ", "C", "h", "a", "n", "g", "e", ",", " ", "T", "i", "r", "e", " ", "R", "o", "t", "a", "t", "i", "o", "n">> \o <<"\n">>
                              \o <<"O", "t", "h", "e", "r", ":", " ", "x">>))
            = Ret(PyList(<<<<"O", "i", "l", " ", "C", "h", "a", "n", "g", "e">>, <<"T", "i", "r", "e", " ", "R", "o", "t", "a", "t", "i", "o", "n">>>>))
    /\ op = "extract_services" =>
        LET labels == <<<<"s", "e", "l", "e", "c", "t", "e", "d", " ", "s", "e", "r", "v", "i", "c", "e", "s", ":">>, <<"s", "e", "r", "v", "i", "c", "e", "s", ":">>, <<"t", "i", "r", "e", " ", "s", "e", "r", "v", "i", "c", "e", "s", ":">>,
                        <<"a", "d", "d", "-", "o", "n", "s", ":">>>>
            Labelled(line) ==
                \E k \in 1..4 : str_startswith(str_lower(str_strip(line)), labels[k])
            Trimmed(pieces) == [k \in 1..Len(pieces) |-> str_strip(pieces[k])]
            Items(line) ==
                SelectSeq(Trimmed(str_split(str_split1(line, ":")[2], ",")),
                          LAMBDA item : item # <<>>)
            RECURSIVE Expected(_)
            Expected(lines) ==
                IF lines = <<>> THEN <<>>
                ELSE (IF Labelled(Head(lines)) THEN Items(Head(lines)) ELSE <<>>)
                        \o Expected(Tail(lines))
        IN  IF value = PyNone \/ value = PyStr(<<>>) THEN result = Ret(PyList(<<>>))
            ELSE result = Ret(PyList(Expected(str_split(value.s, "\n"))))

(* extract_services was called on a line under two of the labels' words  *)
(* followed by a line with a repeated item: three entries, one a repeat. *)
C9_Witness ==
    /\ op = "extract_services"
    /\ value = PyStr(<<"S", "E", "L", "E", "C", "T", "E", "D", " ", "S", "E", "R", "V", "I", "C", "E", "S", ":", " ", "O", "i", "l", ",", " ", "T", "i", "r", "e">> \o <<"\n">> \o <<"A", "d", "d", "-", "O", "n", "s", ":", "O", "i", "l", ",", ",", "O", "i", "l", " ">>)
    /\ result = Ret(PyList(<<<<"O", "i", "l">>, <<"T", "i", "r", "e">>, <<"O", "i", "l">>, <<"O", "i", "l">>>>))

---------------------------------------------------------------------------
(* Status labels: to_css_class. *)

MaxLabelLen == 3

LabelAlphabet == {"a", "A", "_", "-", " "}

UpperChar(c) ==
    IF \E k \in 1..Len(LowerCase) : LowerCase[k] = c
    THEN UpperCase[CHOOSE k \in 1..Len(LowerCase) : LowerCase[k] = c]
    ELSE c

RECURSIVE str_upper(_)
str_upper(s) ==
    IF s = <<>> THEN <<>> ELSE <<UpperChar(Head(s))>> \o str_upper(Tail(s))

(* The statuses and priorities the application uses, and the results     *)
(* to_css_class gives for them.                                          *)
KnownLabels ==
    DOMAIN status_mapping
    \cup {<<"i", "n", "-", "p", "r", "o", "g", "r", "e", "s", "s">>, <<"u", "n", "k", "n", "o", "w", "n", "_", "s", "t", "a", "t", "u", "s">>, <<"u", "n", "k", "n", "o", "w", "n", "-", "s", "t", "a", "t", "u", "s">>, <<"o", "n", "_", "h", "o", "l", "d", "_", "n", "o", "w">>}

RECURSIVE TextsUpTo(_)
TextsUpTo(n) ==
    IF n = 0 THEN {<<>>}
    ELSE TextsUpTo(n - 1)
         \cup {<<c>> \o w : c \in LabelAlphabet, w \in TextsUpTo(n - 1)}

Labels ==
    {PyStr(w) : w \in TextsUpTo(MaxLabelLen)}
    \cup {PyStr(w) : w \in KnownLabels}
    \cup {PyStr(str_upper(w)) : w \in KnownLabels}
    \cup {PyStr(<<" ">> \o w \o <<" ">>) : w \in KnownLabels}
    \cup {PyNone, PyInt(0), PyInt(5), PyBool(TRUE)}

ToCssClass ==
    \E v \in Labels :
        /\ op = ""
        /\ op' = "to_css_class"
        /\ value' = v
        /\ result' = to_css_class(v)
        /\ UNCHANGED <<now, tz, arg>>

NextCss == ToCssClass \/ Rendered

SpecCss == InitIdle /\ [][NextCss]_vars

(* C10: to_css_class applied to its own result gives that result again,  *)
(* for every text over letters in both cases, underscores, hyphens and   *)
(* surrounding spaces and for every known status and priority; so        *)
(* 'pending', 'in-progress', 'unknown-status' and '' map to themselves.  *)
C10_Idempotent ==
    /\ to_css_class(PyStr(<<"I", "N", "_", "P", "R", "O", "G", "R", "E", "S", "S">>)) = Ret(PyStr(<<"i", "n", "-", "p", "r", "o", "g", "r", "e", "s", "s">>))
    /\ to_css_class(PyStr(<<"u", "n", "k", "n", "o", "w", "n", "_", "s", "t", "a", "t", "u", "s">>)) = Ret(PyStr(<<"u", "n", "k", "n", "o", "w", "n", "-", "s", "t", "a", "t", "u", "s">>))
    /\ to_css_class(PyStr(<<>>)) = Ret(PyStr(<<>>))
    /\ op = "to_css_class" =>
        /\ result.kind = "return"
        /\ result.val.t = "str"
        /\ to_css_class(result.val) = result

(* to_css_class was called on a status it maps to another name. *)
C10_Witness ==
    /\ op = "to_css_class"
    /\ value = PyStr(<<"A", "S", "S", "I", "G", "N", "E", "D">>)
    /\ result = Ret(PyStr(<<"i", "n", "-", "p", "r", "o", "g", "r", "e", "s", "s">>))

---------------------------------------------------------------------------
(* Every filter on values of every kind a template may pass. *)

AnyValues ==
    {PyNone, PyInt(0), PyInt(5), PyInt(-3), PyFloat(5, 2), PyInf(1), PyInf(-1),
     PyNaN, PyBool(TRUE), PyStr(<<>>), PyStr(<<"b", "a", "d">>), PyStr(<<"4", ".", "5">>), PyStr(<<"i", "n", "f">>),
     PyStr(<<"a", ":", "b">>), PyStr(<<"S", "e", "r", "v", "i", "c", "e", "s", ":", " ", "a", ",", " ", "b">>), PyObject, PyList(<<>>),
     PyList(<<<<"a">>>>), NaiveDatetime(30), AwareDatetime(30, 0),
     PyDecimal(FALSE, 450, 2), PyDict(<<>>),
     PyDict((<<"p", "r", "i", "c", "e">> :> PyInt(100)) @@ (<<"c", "o", "s", "t", "_", "p", "r", "i", "c", "e">> :> PyStr(<<"b", "a", "d">>))),
     PyRecord([price |-> PyInt(100), cost_price |-> PyNone]),
     PyRecord([started_at |-> PyStr(<<"b", "a", "d">>), created_at |-> PyNone,
               completed_at |-> PyInt(5)]),
     PyRecord([registration_date |-> NaiveDatetime(30), total_visits |-> PyStr(<<"b", "a", "d">>)]),
     PyQuerySet({<<"s", "e", "r", "v", "i", "c", "e">>}), PyQuerySet({}),
     PyFile(<<"a">>, 5, TRUE), PyFile(<<"a">>, 5, FALSE), PyFile(<<>>, 0, FALSE)}

AnyArguments ==
    {PyNone, PyInt(0), PyInt(2), PyInf(1), PyStr(<<>>), PyStr(<<"a", ":", "b">>), PyStr(<<"b", "a", "d">>),
     PyStr(<<"S", "e", "r", "v", "i", "c", "e">>), PyObject, PyList(<<>>)}

TimesinceDays ==
    \E v \in AnyValues :
        /\ op = ""
        /\ op' = "timesince_days"
        /\ value' = v
        /\ result' = timesince_days(v)
        /\ UNCHANGED <<now, tz, arg>>

ToCssClassOfAny ==
    \E v \in AnyValues :
        /\ op = ""
        /\ op' = "to_css_class"
        /\ value' = v
        /\ result' = to_css_class(v)
        /\ UNCHANGED <<now, tz, arg>>

CustomerStatusOfAny ==
    \E v \in AnyValues :
        /\ op = ""
        /\ op' = "customer_status"
        /\ value' = v
        /\ result' = customer_status(v)
        /\ UNCHANGED <<now, tz, arg>>

AbsoluteValue ==
    \E v \in AnyValues :
        /\ op = ""
        /\ op' = "abs"
        /\ value' = v
        /\ result' = absolute_value(v)
        /\ UNCHANGED <<now, tz, arg>>

OrderLastUpdateOfAny ==
    \E v \in AnyValues :
        /\ op = ""
        /\ op' = "order_last_update"
        /\ value' = v
        /\ result' = order_last_update(v)
        /\ UNCHANGED <<now, tz, arg>>

SafeFilesize ==
    \E v \in AnyValues :
        /\ op = ""
        /\ op' = "safe_filesize"
        /\ value' = v
        /\ result' = safe_filesize(v)
        /\ UNCHANGED <<now, tz, arg>>

FormatMinutesOfAny ==
    \E v \in AnyValues :
        /\ op = ""
        /\ op' = "format_minutes"
        /\ value' = v
        /\ result' = format_minutes(v)
        /\ UNCHANGED <<now, tz, arg>>

ElapsedMinutesOfAny ==
    \E v \in AnyValues :
        /\ op = ""
        /\ op' = "elapsed_minutes"
        /\ value' = v
        /\ result' = elapsed_minutes(v)
        /\ UNCHANGED <<now, tz, arg>>

ExtractServicesOfAny ==
    \E v \in AnyValues :
        /\ op = ""
        /\ op' = "extract_services"
        /\ value' = v
        /\ result' = extract_services(v)
        /\ UNCHANGED <<now, tz, arg>>

ActualTimeMinutesOfAny ==
    \E v \in AnyValues :
        /\ op = ""
        /\ op' = "actual_time_minutes"
        /\ value' = v
        /\ result' = actual_time_minutes(v)
        /\ UNCHANGED <<now, tz, arg>>

FormatQtyOfAny ==
    \E v \in AnyValues :
        /\ op = ""
        /\ op' = "format_qty"
        /\ value' = v
        /\ result' = format_qty(v)
        /\ UNCHANGED <<now, tz, arg>>

Div ==
    \E v \in AnyValues, a \in AnyArguments :
        /\ op = ""
        /\ op' = "div"
        /\ value' = v
        /\ arg' = a
        /\ result' = div(v, a)
        /\ UNCHANGED <<now, tz>>

Mul ==
    \E v \in AnyValues, a \in AnyArguments :
        /\ op = ""
        /\ op' = "mul"
        /\ value' = v
        /\ arg' = a
        /\ result' = mul(v, a)
        /\ UNCHANGED <<now, tz>>

Replace ==
    \E v \in AnyValues, a \in AnyArguments :
        /\ op = ""
        /\ op' = "replace"
        /\ value' = v
        /\ arg' = a
        /\ result' = replace(v, a)
        /\ UNCHANGED <<now, tz>>

DictGetOfAny ==
    \E v \in AnyValues, a \in AnyArguments :
        /\ op = ""
        /\ op' = "dict_get"
        /\ value' = v
        /\ arg' = a
        /\ result' = dict_get(v, a)
        /\ UNCHANGED <<now, tz>>

MarginPercentageOfAny ==
    \E v \in AnyValues, a \in AnyArguments :
        /\ op = ""
        /\ op' = "margin_percentage"
        /\ value' = v
        /\ arg' = a
        /\ result' = margin_percentage(v, a)
        /\ UNCHANGED <<now, tz>>

HasType ==
    \E v \in AnyValues, a \in AnyArguments :
        /\ op = ""
        /\ op' = "has_type"
        /\ value' = v
        /\ arg' = a
        /\ result' = has_type(v, a)
        /\ UNCHANGED <<now, tz>>

NextAny ==
    \/ Div
    \/ Mul
    \/ Replace
    \/ DictGetOfAny
    \/ MarginPercentageOfAny
    \/ HasType
    \/ TimesinceDays
    \/ ToCssClassOfAny
    \/ CustomerStatusOfAny
    \/ AbsoluteValue
    \/ OrderLastUpdateOfAny
    \/ SafeFilesize
    \/ FormatMinutesOfAny
    \/ ElapsedMinutesOfAny
    \/ ExtractServicesOfAny
    \/ ActualTimeMinutesOfAny
    \/ FormatQtyOfAny
    \/ Rendered

SpecAny == InitIdle /\ [][NextAny]_vars

(* C1: whatever the value and the argument (None, non-numeric text,      *)
(* infinite numbers, objects of the wrong type, a None argument), every  *)
(* filter returns a value and no exception leaves the call.              *)
C1_NoFilterRaises == result.kind = "return"

=============================================================================
